---- MODULE Spec2Model ----
(***************************************************************************)
(* A model of scripts/benchmark.py: the benchmark run of main() (baseline  *)
(* workspace staging, the two concurrent builds, smoke tests, the reset of *)
(* the results directory, the per-operation measurement and the summary),  *)
(* and of its pure parts (mcp_call_cmd, _speedup_table).                   *)
(*                                                                         *)
(* A Python "X | None" value is a sequence of length 0 (None) or 1.        *)
(* A dict is a sequence of <<key, value>> pairs with distinct keys, in     *)
(* insertion order.  A command line is a sequence of tokens.  A duration   *)
(* is a whole number of microseconds.                                      *)
(***************************************************************************)
EXTENDS Integers, Sequences, FiniteSets, TLC

VARIABLES
    mode, do_baseline, tools,          \* the command-line options of the run
    pc,                                \* position of main()
    curBuild, baseBuild,               \* the two build workers
    baseline_label, baseline_bin,      \* locals of main(): None or set
    reused,                            \* staging returned through the reuse path
    todo,                              \* rest of the bench loop main() is in
    wsExists, wsGen, wsReg, wsBin,     \* BASELINE_WORKSPACE_DIR and its registration
    curBin,                            \* the current tree's release binary exists
    resExists, resFiles,               \* RESULTS_DIR and the files in it
    timing,                            \* what the measured commands take in this run
    errs, warns,                       \* error() / warn() messages printed so far
    exit, abortAt,                     \* exit status and the place the run aborted at
    hf,                                \* the hyperfine invocations of the run, in order
    phases,                            \* the controller phases reached, in order
    cleanups,                          \* calls of cleanup_baseline()
    report,                            \* what generate_summary() returned: None or set
    start,                             \* the two directories as the run found them,
                                       \* and how the run before it ended
    vcs,                               \* the jj and workspace-directory commands issued, in order
    faults,                            \* failures the environment has produced so far
    cmdArgs, cmdOut                    \* input and output of the command builder

vars == <<mode, do_baseline, tools, pc, curBuild, baseBuild, baseline_label,
          baseline_bin, reused, todo, wsExists, wsGen, wsReg, wsBin, curBin,
          resExists, resFiles, timing, errs, warns, exit, abortAt, hf, phases,
          cleanups, report, start, vcs, faults, cmdArgs, cmdOut>>

cfgVars == <<mode, do_baseline, tools, timing, start>>
wsVars == <<wsExists, wsGen, wsReg, wsBin>>
resVars == <<resExists, resFiles>>
buildVars == <<curBuild, baseBuild, curBin>>
localVars == <<baseline_label, baseline_bin, reused, todo>>
obsVars == <<hf, cleanups, report, vcs>>
runVars == <<hf, cleanups, report>>
cmdVars == <<cmdArgs, cmdOut>>

(***************************************************************************)
(* Bounds of the model.                                                    *)
(***************************************************************************)
\* How many external commands may fail, time out or misbehave in one run.
MaxFaults == 2

(***************************************************************************)
(* Program constants.                                                      *)
(***************************************************************************)
None == <<>>

Some(x) == <<x>>

TOOLS ==
    << [name |-> "get_booted_sim_id", params |-> None],
       [name |-> "describe_all", params |-> None],
       [name |-> "describe_point", params |-> Some(<< <<"x", "165">>, <<"y", "269">> >>)],
       [name |-> "tap", params |-> Some(<< <<"x", "165">>, <<"y", "269">> >>)],
       [name |-> "view", params |-> None] >>

\* (display_name, swift_cli_template, baseline_template, baseline_label); a
\* template is its tokens, with the placeholders as tokens of their own.
CLI_TOOLS ==
    << [name |-> "describe_all",
        swift_tpl |-> <<"{swift_bin}", "describe_all", "--udid", "{udid}">>,
        baseline_tpl |-> <<"{idb}", "ui", "describe-all", "--udid", "{udid}", "--json">>,
        label |-> "idb"],
       [name |-> "describe_point",
        swift_tpl |-> <<"{swift_bin}", "describe_point", "--x", "165", "--y", "269",
                        "--udid", "{udid}">>,
        baseline_tpl |-> <<"{idb}", "ui", "describe-point", "--udid", "{udid}", "--json",
                           "--", "165", "269">>,
        label |-> "idb"],
       [name |-> "tap",
        swift_tpl |-> <<"{swift_bin}", "tap", "--x", "165", "--y", "269", "--udid",
                        "{udid}">>,
        baseline_tpl |-> <<"{idb}", "ui", "tap", "--udid", "{udid}", "--json", "--",
                           "165", "269">>,
        label |-> "idb"],
       [name |-> "screenshot",
        swift_tpl |-> <<"{swift_bin}", "view", "--udid", "{udid}">>,
        baseline_tpl |-> <<"xcrun", "simctl", "io", "{udid}", "screenshot", "--type=png",
                           "/tmp/bench_ss.png">>,
        label |-> "simctl"] >>

\* The perl wrapper that bounds a measured command to 5 s.
ALARM == "perl -e 'alarm 5; exec @ARGV' --"

(***************************************************************************)
(* Sequence helpers.                                                       *)
(***************************************************************************)
Range(s) == {s[i] : i \in DOMAIN s}

RECURSIVE Count(_, _)
Count(s, x) ==
    IF s = <<>> THEN 0
    ELSE (IF Head(s) = x THEN 1 ELSE 0) + Count(Tail(s), x)

RECURSIVE Flatten(_)
Flatten(ss) == IF ss = <<>> THEN <<>> ELSE Head(ss) \o Flatten(Tail(ss))

(***************************************************************************)
(* The command builder.                                                    *)
(***************************************************************************)
HasKey(d, k) == \E i \in DOMAIN d : d[i][1] = k

\* {**params, key: value}: an existing key keeps its place and takes the new
\* value, a new key goes last.
DictSet(d, k, v) ==
    IF HasKey(d, k)
    THEN [i \in DOMAIN d |-> IF d[i][1] = k THEN <<k, v>> ELSE d[i]]
    ELSE Append(d, <<k, v>>)

\* json.dumps of a dict, as tokens.
json_dumps(d) == <<"{">> \o Flatten(d) \o <<"}">>

\* the parameter set without the branch that synthesizes {"udid": udid}
McpParams_NoSynth(tool, params, udid) ==
    IF params # None THEN Some(DictSet(params[1], "udid", udid)) ELSE None

\* The parameter set mcp_call_cmd sends: None or a dict.
McpParams(tool, params, udid) ==
    IF params # None THEN Some(DictSet(params[1], "udid", udid))
    ELSE IF tool # "get_booted_sim_id" THEN Some(<< <<"udid", udid>> >>)
    ELSE None

mcp_call_cmd(tool, params, udid, server_cmd) ==
    LET p == McpParams(tool, params, udid)
        \* "if p:" is false for None and for an empty dict
        truthy == p # None /\ p[1] # <<>>
    IN  <<ALARM, "mcp", "call", tool>>
        \o (IF truthy THEN <<"-p">> \o json_dumps(p[1]) ELSE <<>>)
        \o <<server_cmd>>

\* str.format on a template: every placeholder token is replaced by its value.
Format(tpl, swift_bin, idb, udid) ==
    [i \in DOMAIN tpl |->
        CASE tpl[i] = "{swift_bin}" -> swift_bin
          [] tpl[i] = "{idb}" -> idb
          [] tpl[i] = "{udid}" -> udid
          [] OTHER -> tpl[i]]

(***************************************************************************)
(* Inputs of a run and the state an earlier run may have left behind.      *)
(***************************************************************************)
Modes == {"mcp", "cli", "all"}

\* Values of the repeatable --tool option: none, a protocol-only name, a
\* direct-only name, and names of both categories out of order and repeated.
Filters == {<<>>, <<"view">>, <<"screenshot">>, <<"view", "tap", "view">>}

UDID == "UDID-1"

SWIFT_BIN == ".build/release/iosef"

BASELINE_BIN == "/tmp/ios-sim-mcp-bench-baseline/.build/release/iosef"

NODE_SERVER == "node ../ios-simulator-mcp/build/index.js"

IDB == "../idb"

\* Mean durations (microseconds) of the three candidates in a run: two
\* ordinary ones, and a primary of one second beside an external reference of
\* four milliseconds.  No mean and no ratio of two of them lies halfway
\* between two printed values.
Timings ==
    { [primary |-> 10000, self |-> 12000, ext |-> 30000],
      [primary |-> 20000, self |-> 18000, ext |-> 25000],
      [primary |-> 1000000, self |-> 900000, ext |-> 4000] }

\* Files of an earlier run (mode all, --tool view --tool screenshot, no
\* self-comparison) still in RESULTS_DIR.
EarlierFiles ==
    { [name |-> <<"view", ".json">>, by |-> "earlier",
       results |-> << [cand |-> "primary", mean |-> 20000],
                      [cand |-> "ext", mean |-> 25000] >>],
      [name |-> <<"view", ".md">>, by |-> "earlier", results |-> <<>>],
      [name |-> <<"cli_", "screenshot", ".json">>, by |-> "earlier",
       results |-> << [cand |-> "primary", mean |-> 20000] >>],
      [name |-> <<"cli_", "screenshot", ".md">>, by |-> "earlier", results |-> <<>>],
      [name |-> <<"summary", ".md">>, by |-> "earlier", results |-> <<>>] }

NoCall == [tool |-> "", params |-> None, udid |-> "", server_cmd |-> ""]

MainInit(m, b, t, tm, ws, res) ==
    /\ mode = m /\ do_baseline = b /\ tools = t /\ timing = tm
    /\ pc = "check_prerequisites"
    /\ curBuild = "idle" /\ baseBuild = "idle" /\ curBin = FALSE
    /\ baseline_label = None /\ baseline_bin = None /\ reused = FALSE
    /\ todo = <<>>
    \* the workspace an earlier run left (registered, built) or none
    /\ wsExists = ws /\ wsReg = ws /\ wsBin = ws /\ wsGen = 0
    /\ resExists = res /\ resFiles = (IF res THEN EarlierFiles ELSE {})
    /\ errs = 0 /\ warns = 0 /\ exit = "none" /\ abortAt = "none"
    /\ hf = <<>> /\ phases = <<"Init">> /\ cleanups = 0 /\ faults = 0
    /\ report = None /\ vcs = <<>>
    /\ start = [ws |-> <<wsExists, wsGen, wsReg, wsBin>>, res |-> <<resExists, resFiles>>,
                after |-> [pc |-> "none", baseline |-> FALSE]]

Init ==
    /\ \E m \in Modes, b \in BOOLEAN, t \in Filters, tm \in Timings,
          ws \in BOOLEAN, res \in BOOLEAN :
            MainInit(m, b, t, tm, ws, res)
    /\ cmdArgs = NoCall /\ cmdOut = <<>>

(***************************************************************************)
(* Control helpers.                                                        *)
(***************************************************************************)
\* main() goes on at p
Step(p) == pc' = p /\ UNCHANGED <<exit, abortAt, errs, phases>>

\* main() goes on at p, which completes controller phase ph
StepPhase(p, ph) ==
    pc' = p /\ phases' = Append(phases, ph) /\ UNCHANGED <<exit, abortAt, errs>>

\* error(...); sys.exit(1)
DieAt(at) ==
    /\ pc' = "aborted" /\ exit' = "nonzero" /\ abortAt' = at
    /\ errs' = errs + 1 /\ phases' = Append(phases, "Aborted")

Die == DieAt(pc)

\* an exception nothing catches (subprocess.TimeoutExpired, CalledProcessError):
\* a traceback and a non-zero status, no error(...) message
RaiseAt(at) ==
    /\ pc' = "aborted" /\ exit' = "nonzero" /\ abortAt' = at
    /\ errs' = errs /\ phases' = Append(phases, "Aborted")

Raise == RaiseAt(pc)

Fault == faults < MaxFaults /\ faults' = faults + 1

NoFault == faults' = faults

\* a jj command, or a removal of the workspace directory, and how it ended
Log(cmd, rc) == vcs' = Append(vcs, <<cmd, rc>>)

(***************************************************************************)
(* Prerequisites.                                                          *)
(***************************************************************************)
check_prerequisites ==
    /\ pc = "check_prerequisites"
    /\ \/ Step("get_udid") /\ NoFault
       \/ Die /\ Fault
    /\ UNCHANGED <<cfgVars, wsVars, resVars, buildVars, localVars, obsVars,
                   warns, cmdVars>>

\* the resolution of the UDID followed by the staging whatever --no-from-version
get_udid_AlwaysStage ==
    /\ pc = "get_udid"
    /\ \/ StepPhase("resolve_jj_revision", "PrerequisitesChecked") /\ NoFault
       \/ Die /\ Fault
       \/ Raise /\ Fault
    /\ UNCHANGED <<cfgVars, wsVars, resVars, buildVars, localVars, obsVars,
                   warns, cmdVars>>
get_udid ==
    /\ pc = "get_udid"
    /\ \/ /\ StepPhase(IF do_baseline THEN "resolve_jj_revision" ELSE "build",
                       "PrerequisitesChecked")
          /\ NoFault
       \/ Die /\ Fault      \* no booted simulator
       \/ Raise /\ Fault    \* xcrun simctl list takes more than 30 s
    /\ UNCHANGED <<cfgVars, wsVars, resVars, buildVars, localVars, obsVars,
                   warns, cmdVars>>

(***************************************************************************)
(* prepare_baseline_workspace.                                             *)
(***************************************************************************)
\* a resolution that reports the failure and goes on
resolve_jj_revision_NoExit ==
    /\ pc = "resolve_jj_revision"
    /\ \/ Step("current_rev") /\ NoFault /\ Log("log", "ok")
       \/ Step("current_rev") /\ Fault /\ Log("log", "fail")
       \/ Raise /\ Fault /\ Log("log", "timeout")
    /\ UNCHANGED <<cfgVars, wsVars, resVars, buildVars, localVars, runVars,
                   warns, cmdVars>>
resolve_jj_revision ==
    /\ pc = "resolve_jj_revision"
    /\ \/ Step("current_rev") /\ NoFault /\ Log("log", "ok")
       \/ Die /\ Fault /\ Log("log", "fail")
       \/ Raise /\ Fault /\ Log("log", "timeout")
    /\ UNCHANGED <<cfgVars, wsVars, resVars, buildVars, localVars, runVars,
                   warns, cmdVars>>

\* jj log -r @: warn if the baseline is the working copy
current_rev ==
    /\ pc = "current_rev"
    /\ \/ Step(IF wsExists THEN "update_stale" ELSE "fresh_rmtree")
          /\ NoFault /\ warns' = warns /\ Log("log @", "ok")
       \/ Step(IF wsExists THEN "update_stale" ELSE "fresh_rmtree")
          /\ Fault /\ warns' = warns + 1 /\ Log("log @", "ok")
       \/ Raise /\ Fault /\ warns' = warns /\ Log("log @", "timeout")
    /\ UNCHANGED <<cfgVars, wsVars, resVars, buildVars, localVars, runVars,
                   cmdVars>>

\* jj workspace update-stale in the existing workspace; its status is ignored
update_stale ==
    /\ pc = "update_stale"
    /\ \/ Step("rebase") /\ NoFault /\ Log("update-stale", "ok")
       \/ Raise /\ Fault /\ Log("update-stale", "timeout")
    /\ UNCHANGED <<cfgVars, wsVars, resVars, buildVars, localVars, runVars,
                   warns, cmdVars>>

\* rebase without the return of the reuse path: a rebind that succeeded still
\* falls through to the fresh creation
rebase_NoReturn ==
    /\ pc = "rebase"
    /\ \/ /\ Step("fresh_rmtree") /\ NoFault
          /\ reused' = TRUE
          /\ warns' = warns /\ Log("rebase", "ok")
       \/ /\ Step("fresh_rmtree") /\ Fault
          /\ warns' = warns + 1 /\ Log("rebase", "fail")
          /\ UNCHANGED reused
       \/ /\ Raise /\ Fault /\ Log("rebase", "timeout")
          /\ UNCHANGED <<reused, warns>>
    /\ UNCHANGED <<cfgVars, wsVars, resVars, buildVars, baseline_label,
                   baseline_bin, todo, runVars, cmdVars>>

\* jj rebase -d rev in the existing workspace
rebase ==
    /\ pc = "rebase"
    /\ \/ /\ StepPhase("build", "BaselineStaged") /\ NoFault
          /\ baseline_label' = Some("label") /\ reused' = TRUE
          /\ warns' = warns /\ Log("rebase", "ok")
       \/ /\ Step("fresh_rmtree") /\ Fault
          /\ warns' = warns + 1 /\ Log("rebase", "fail")
          /\ UNCHANGED <<baseline_label, reused>>
       \/ /\ Raise /\ Fault /\ Log("rebase", "timeout")
          /\ UNCHANGED <<baseline_label, reused, warns>>
    /\ UNCHANGED <<cfgVars, wsVars, resVars, buildVars, baseline_bin, todo,
                   runVars, cmdVars>>

\* fresh creation that goes from the removal straight to jj workspace add
fresh_rmtree_SkipForget ==
    /\ pc = "fresh_rmtree"
    /\ Step("fresh_add") /\ NoFault
    /\ wsExists' = FALSE
    /\ wsBin' = FALSE
    /\ IF wsExists THEN Log("rmtree", "ok") ELSE vcs' = vcs
    /\ UNCHANGED <<cfgVars, wsGen, wsReg, resVars, buildVars, localVars, runVars,
                   warns, cmdVars>>

\* fresh creation that leaves the old directory in place until the new
\* workspace is there
fresh_rmtree_KeepsDirectory ==
    /\ pc = "fresh_rmtree"
    /\ Step("fresh_forget") /\ NoFault
    /\ UNCHANGED <<cfgVars, wsVars, vcs, resVars, buildVars, localVars, runVars,
                   warns, cmdVars>>
\* if BASELINE_WORKSPACE_DIR.exists(): shutil.rmtree(...)
fresh_rmtree ==
    /\ pc = "fresh_rmtree"
    /\ Step("fresh_forget") /\ NoFault
    /\ wsExists' = FALSE
    /\ wsBin' = FALSE
    /\ IF wsExists THEN Log("rmtree", "ok") ELSE vcs' = vcs
    /\ UNCHANGED <<cfgVars, wsGen, wsReg, resVars, buildVars, localVars, runVars,
                   warns, cmdVars>>

\* jj workspace forget: the registration goes if the command succeeds; its
\* status is ignored
forget(next) ==
    \/ /\ Step(next) /\ NoFault /\ Log("forget", "ok")
       /\ wsReg' = FALSE
    \/ /\ Step(next) /\ Fault /\ Log("forget", "fail")
       /\ wsReg' = wsReg
    \/ /\ Raise /\ Fault /\ Log("forget", "timeout")
       /\ wsReg' = wsReg

fresh_forget ==
    /\ pc = "fresh_forget"
    /\ forget("fresh_add")
    /\ UNCHANGED <<cfgVars, wsExists, wsGen, wsBin, resVars, buildVars, localVars,
                   runVars, warns, cmdVars>>

\* jj workspace add
fresh_add ==
    /\ pc = "fresh_add"
    /\ \/ /\ StepPhase("build", "BaselineStaged") /\ NoFault
          /\ wsExists' = TRUE /\ wsGen' = wsGen + 1 /\ wsReg' = TRUE
          /\ baseline_label' = Some("label") /\ Log("add", "ok")
       \/ /\ Die /\ Fault /\ Log("add", "fail")
          /\ UNCHANGED <<wsExists, wsGen, wsReg, baseline_label>>
       \/ /\ Raise /\ Fault /\ Log("add", "timeout")
          /\ UNCHANGED <<wsExists, wsGen, wsReg, baseline_label>>
    /\ UNCHANGED <<cfgVars, wsBin, resVars, buildVars, baseline_bin, reused, todo,
                   runVars, warns, cmdVars>>

(***************************************************************************)
(* The build phase of main(): the current tree and the baseline workspace  *)
(* are built by two pool workers; without self-comparison the current tree *)
(* is built alone.                                                         *)
(***************************************************************************)
AfterBuild == IF mode \in {"mcp", "all"} THEN "node_check" ELSE "idb_check"

\* the build phase with the results directory set up before the builds
start_builds_ResetsResults ==
    /\ pc = "build"
    /\ Step("join") /\ NoFault
    /\ curBuild' = "running"
    /\ baseBuild' = (IF do_baseline THEN "running" ELSE "idle")
    /\ resExists' = TRUE /\ resFiles' = {}
    /\ UNCHANGED <<cfgVars, wsVars, curBin, localVars, obsVars, warns, cmdVars>>

start_builds ==
    /\ pc = "build"
    /\ Step("join") /\ NoFault
    /\ curBuild' = "running"
    /\ baseBuild' = (IF do_baseline THEN "running" ELSE "idle")
    /\ UNCHANGED <<cfgVars, wsVars, resVars, curBin, localVars, obsVars, warns,
                   cmdVars>>

\* a build of the baseline that runs without cwd, in the current tree
_swift_build_NoCwd(label) ==
    /\ (IF label = "Current" THEN curBuild ELSE baseBuild) = "running"
    /\ \E outcome \in {"ok", "noartifact", "failed", "timeout"} :
        /\ IF outcome = "ok" THEN NoFault ELSE Fault
        /\ errs' = (IF outcome = "failed" THEN errs + 1 ELSE errs)
        /\ LET state == IF outcome = "noartifact" THEN "ok" ELSE outcome
           IN  /\ IF label = "Current" THEN curBuild' = state /\ baseBuild' = baseBuild
                  ELSE baseBuild' = state /\ curBuild' = curBuild
               /\ curBin' = (IF state = "ok" THEN outcome = "ok" ELSE curBin)
               /\ wsBin' = wsBin
    /\ UNCHANGED <<cfgVars, pc, exit, abortAt, phases, wsExists, wsGen, wsReg,
                   resVars, localVars, obsVars, warns, cmdVars>>
\* swift build -c release, timeout 300 s, in the tree of the labelled candidate
_swift_build(label) ==
    /\ (IF label = "Current" THEN curBuild ELSE baseBuild) = "running"
    /\ \E outcome \in {"ok", "noartifact", "failed", "timeout"} :
        /\ IF outcome = "ok" THEN NoFault ELSE Fault
        /\ errs' = (IF outcome = "failed" THEN errs + 1 ELSE errs)
        /\ LET state == IF outcome = "noartifact" THEN "ok" ELSE outcome
           IN  IF label = "Current"
               THEN /\ curBuild' = state
                    /\ curBin' = (IF state = "ok" THEN outcome = "ok" ELSE curBin)
                    /\ UNCHANGED <<baseBuild, wsBin>>
               ELSE /\ baseBuild' = state
                    /\ wsBin' = (IF state = "ok" THEN outcome = "ok" ELSE wsBin)
                    /\ UNCHANGED <<curBuild, curBin>>
    /\ UNCHANGED <<cfgVars, pc, exit, abortAt, phases, wsExists, wsGen, wsReg,
                   resVars, localVars, obsVars, warns, cmdVars>>

\* the build phase that asks only the current build for its result
join_builds_CurrentOnly ==
    /\ pc = "join"
    /\ curBuild # "running" /\ baseBuild # "running"
    /\ \/ /\ curBuild = "ok"
          /\ IF do_baseline THEN Step("bin_check")
             ELSE StepPhase(AfterBuild, "Built")
       \/ /\ curBuild # "ok"
          /\ Raise
    /\ NoFault
    /\ UNCHANGED <<cfgVars, wsVars, resVars, buildVars, localVars, obsVars, warns,
                   cmdVars>>
\* current_fut.result(); baseline_fut.result(); leaving the with block waits
\* for both workers, whichever raised
join_builds ==
    /\ pc = "join"
    /\ curBuild # "running" /\ baseBuild # "running"
    /\ \/ /\ curBuild = "ok" /\ baseBuild \in {"ok", "idle"}
          /\ IF do_baseline THEN Step("bin_check")
             ELSE StepPhase(AfterBuild, "Built")
       \/ /\ ~(curBuild = "ok" /\ baseBuild \in {"ok", "idle"})
          /\ Raise
    /\ NoFault
    /\ UNCHANGED <<cfgVars, wsVars, resVars, buildVars, localVars, obsVars, warns,
                   cmdVars>>

\* the build phase without a check of the baseline binary
bin_check_Skip ==
    /\ pc = "bin_check"
    /\ baseline_bin' = Some("baseline")
    /\ StepPhase(AfterBuild, "Built")
    /\ NoFault
    /\ UNCHANGED <<cfgVars, wsVars, resVars, buildVars, baseline_label, reused,
                   todo, hf, cleanups, report, vcs, warns, cmdVars>>
\* the artifact check without the call of cleanup_baseline()
bin_check_NoCleanup ==
    /\ pc = "bin_check"
    /\ baseline_bin' = Some("baseline")
    /\ \/ wsBin /\ StepPhase(AfterBuild, "Built")
       \/ ~wsBin /\ Die
    /\ NoFault
    /\ UNCHANGED <<cfgVars, wsVars, resVars, buildVars, baseline_label, reused,
                   todo, hf, cleanups, report, vcs, warns, cmdVars>>

\* baseline_bin = ...; if not baseline_bin.exists(): error, cleanup_baseline()
bin_check ==
    /\ pc = "bin_check"
    /\ baseline_bin' = Some("baseline")
    /\ \/ /\ wsBin
          /\ StepPhase(AfterBuild, "Built")
          /\ cleanups' = cleanups
       \/ /\ ~wsBin
          /\ pc' = "cleanup_forget" /\ errs' = errs + 1
          /\ cleanups' = cleanups + 1
          /\ UNCHANGED <<exit, abortAt, phases>>
    /\ NoFault
    /\ UNCHANGED <<cfgVars, wsVars, resVars, buildVars, baseline_label, reused,
                   todo, hf, report, vcs, warns, cmdVars>>

cleanup_forget ==
    /\ pc = "cleanup_forget"
    /\ forget("cleanup_rmtree")
    /\ UNCHANGED <<cfgVars, wsExists, wsGen, wsBin, resVars, buildVars, localVars,
                   runVars, warns, cmdVars>>

\* if BASELINE_WORKSPACE_DIR.exists(): shutil.rmtree(...); then sys.exit(1)
cleanup_rmtree ==
    /\ pc = "cleanup_rmtree"
    /\ wsExists' = FALSE /\ wsBin' = FALSE
    /\ Log("rmtree", "ok")
    /\ pc' = "aborted" /\ exit' = "nonzero" /\ abortAt' = "bin_check"
    /\ phases' = Append(phases, "Aborted")
    /\ NoFault
    /\ UNCHANGED <<cfgVars, wsGen, wsReg, resVars, buildVars, localVars, runVars,
                   errs, warns, cmdVars>>

(***************************************************************************)
(* Run-level checks of the candidates.                                     *)
(***************************************************************************)
AfterMcpSmoke == IF mode = "all" THEN "idb_check" ELSE "reset_results"

\* the check of the node index preceded by the set-up of the results directory
node_check_ResetsResults ==
    /\ pc = "node_check"
    /\ \/ Step("smoke_Swift") /\ NoFault
       \/ Die /\ Fault
    /\ resExists' = TRUE /\ resFiles' = {}
    /\ UNCHANGED <<cfgVars, wsVars, buildVars, localVars, obsVars, warns, cmdVars>>
\* Path(node_index).exists()
node_check ==
    /\ pc = "node_check"
    /\ \/ Step("smoke_Swift") /\ NoFault
       \/ Die /\ Fault
    /\ UNCHANGED <<cfgVars, wsVars, resVars, buildVars, localVars, obsVars,
                   warns, cmdVars>>

\* smoke_test(label, server_cmd): a failure and a timeout both end the run.
\* The Swift server cannot answer when its binary does not exist.
smoke_test(label) ==
    /\ pc = (IF label = "Swift" THEN "smoke_Swift" ELSE "smoke_Node")
    /\ \/ /\ label = "Swift" => curBin
          /\ NoFault
          /\ IF label = "Swift" THEN Step("smoke_Node")
             ELSE IF mode = "all" THEN Step(AfterMcpSmoke)
             ELSE StepPhase(AfterMcpSmoke, "SmokeTested")
       \/ /\ label = "Swift" /\ ~curBin
          /\ Die /\ NoFault
       \/ Die /\ Fault      \* non-zero status
       \/ Die /\ Fault      \* subprocess.TimeoutExpired, caught
    /\ UNCHANGED <<cfgVars, wsVars, resVars, buildVars, localVars, obsVars,
                   warns, cmdVars>>

\* Path(idb_path).exists()
idb_check ==
    /\ pc = "idb_check"
    /\ \/ Step("idb_connect") /\ NoFault
       \/ Die /\ Fault
    /\ UNCHANGED <<cfgVars, wsVars, resVars, buildVars, localVars, obsVars,
                   warns, cmdVars>>

idb_connect ==
    /\ pc = "idb_connect"
    /\ \/ Step("cli_smoke_test") /\ NoFault /\ warns' = warns
       \/ Step("cli_smoke_test") /\ Fault /\ warns' = warns + 1
       \/ Raise /\ Fault /\ warns' = warns
    /\ UNCHANGED <<cfgVars, wsVars, resVars, buildVars, localVars, obsVars,
                   cmdVars>>

cli_smoke_test ==
    /\ pc = "cli_smoke_test"
    /\ \/ /\ curBin
          /\ StepPhase("reset_results", "SmokeTested") /\ NoFault
       \/ ~curBin /\ DieAt("cli_smoke_Swift") /\ NoFault   \* no binary
       \/ DieAt("cli_smoke_Swift") /\ Fault                \* non-zero status
       \/ DieAt("cli_smoke_Swift") /\ Fault                \* timed out, caught
       \/ curBin /\ DieAt("cli_smoke_idb") /\ Fault        \* non-zero status
       \/ curBin /\ DieAt("cli_smoke_idb") /\ Fault        \* timed out, caught
    /\ UNCHANGED <<cfgVars, wsVars, resVars, buildVars, localVars, obsVars,
                   warns, cmdVars>>

\* a set-up of the results directory that only creates it when it is missing
reset_results_KeepFiles ==
    /\ pc = "reset_results"
    /\ resExists' = TRUE /\ resFiles' = resFiles
    /\ StepPhase(IF mode \in {"mcp", "all"} THEN "mcp_filter" ELSE "cli_filter",
                 "Measuring")
    /\ NoFault
    /\ UNCHANGED <<cfgVars, wsVars, buildVars, localVars, obsVars, warns, cmdVars>>
\* if RESULTS_DIR.exists(): shutil.rmtree(RESULTS_DIR); RESULTS_DIR.mkdir()
reset_results ==
    /\ pc = "reset_results"
    /\ resExists' = TRUE /\ resFiles' = {}
    /\ StepPhase(IF mode \in {"mcp", "all"} THEN "mcp_filter" ELSE "cli_filter",
                 "Measuring")
    /\ NoFault
    /\ UNCHANGED <<cfgVars, wsVars, buildVars, localVars, obsVars, warns, cmdVars>>

(***************************************************************************)
(* The measurement of one operation.                                       *)
(***************************************************************************)
SWIFT_MCP == ".build/release/iosef mcp"

BASELINE_MCP == "/tmp/ios-sim-mcp-bench-baseline/.build/release/iosef mcp"

\* bench() that puts the node command in front of the Swift commands
bench_cands_ExtFirst(tool, params, udid, swift_cmd, node_cmd, baseline_swift_cmd, node_ok) ==
    (IF node_ok
     THEN << [cand |-> "ext", cmd |-> mcp_call_cmd(tool, params, udid, node_cmd)] >>
     ELSE <<>>)
    \o << [cand |-> "primary", cmd |-> mcp_call_cmd(tool, params, udid, swift_cmd)] >>
    \o (IF baseline_swift_cmd # None
        THEN << [cand |-> "self",
                 cmd |-> mcp_call_cmd(tool, params, udid, baseline_swift_cmd[1])] >>
        ELSE <<>>)

\* bench() that passes the node command whatever its pre-check said
bench_cands_AlwaysExt(tool, params, udid, swift_cmd, node_cmd, baseline_swift_cmd, node_ok) ==
    << [cand |-> "primary", cmd |-> mcp_call_cmd(tool, params, udid, swift_cmd)] >>
    \o (IF baseline_swift_cmd # None
        THEN << [cand |-> "self",
                 cmd |-> mcp_call_cmd(tool, params, udid, baseline_swift_cmd[1])] >>
        ELSE <<>>)
    \o << [cand |-> "ext", cmd |-> mcp_call_cmd(tool, params, udid, node_cmd)] >>

\* The candidates bench() hands to hyperfine, in the order of the command
\* line: --reference first, then each --command-name.
bench_cands(tool, params, udid, swift_cmd, node_cmd, baseline_swift_cmd, node_ok) ==
    << [cand |-> "primary", cmd |-> mcp_call_cmd(tool, params, udid, swift_cmd)] >>
    \o (IF baseline_swift_cmd # None
        THEN << [cand |-> "self",
                 cmd |-> mcp_call_cmd(tool, params, udid, baseline_swift_cmd[1])] >>
        ELSE <<>>)
    \o (IF node_ok
        THEN << [cand |-> "ext", cmd |-> mcp_call_cmd(tool, params, udid, node_cmd)] >>
        ELSE <<>>)

\* cli_bench() that passes the external command whatever its pre-check said
cli_bench_cands_AlwaysExt(swift_cmd, baseline_cmd, self_baseline_cmd, baseline_ok) ==
    << [cand |-> "primary", cmd |-> <<ALARM>> \o swift_cmd] >>
    \o (IF self_baseline_cmd # None
        THEN << [cand |-> "self", cmd |-> <<ALARM>> \o self_baseline_cmd[1]] >>
        ELSE <<>>)
    \o << [cand |-> "ext", cmd |-> <<ALARM>> \o baseline_cmd] >>

\* The candidates cli_bench() hands to hyperfine.
cli_bench_cands(swift_cmd, baseline_cmd, self_baseline_cmd, baseline_ok) ==
    << [cand |-> "primary", cmd |-> <<ALARM>> \o swift_cmd] >>
    \o (IF self_baseline_cmd # None
        THEN << [cand |-> "self", cmd |-> <<ALARM>> \o self_baseline_cmd[1]] >>
        ELSE <<>>)
    \o (IF baseline_ok
        THEN << [cand |-> "ext", cmd |-> <<ALARM>> \o baseline_cmd] >>
        ELSE <<>>)

\* RESULTS_DIR / f"{tool}.json" and RESULTS_DIR / f"cli_{name}.json"
mcp_file(tool, ext) == <<tool, ext>>

cli_file(name, ext) == <<"cli_", name, ext>>

\* What hyperfine exports for the candidates it was given: the means in the
\* order of the command line, and the markdown table.
hyperfine_export(json, md, cands) ==
    { [name |-> json, by |-> "run",
       results |-> [i \in DOMAIN cands |->
                      [cand |-> cands[i].cand, mean |-> timing[cands[i].cand]]]],
      [name |-> md, by |-> "run", results |-> <<>>] }

\* a file written into a directory replaces the file of that name
WriteFiles(dir, files) ==
    {f \in dir : \A g \in files : g.name # f.name} \cup files

\* a selection that ignores --tool
Selected_All(all) == all

\* a selection that follows the --tool values, one entry per value
Selected_InFilterOrder(all) ==
    IF tools # <<>>
    THEN Flatten([i \in DOMAIN tools |-> SelectSeq(all, LAMBDA t : t.name = tools[i])])
    ELSE all
\* --tool given: [(t, p) for t, p in TOOLS if t in set(tools)]
Selected(all) ==
    IF tools # <<>> THEN SelectSeq(all, LAMBDA t : t.name \in Range(tools)) ELSE all

AfterMcpBench == IF mode = "all" THEN "cli_filter" ELSE "summary"

\* a filter applied to the two categories together: in mode all an empty
\* selection of protocol-level operations passes on to the other category
mcp_filter_Together ==
    /\ pc = "mcp_filter"
    /\ \/ /\ Selected(TOOLS) # <<>>
          /\ todo' = Selected(TOOLS)
          /\ Step("bench")
       \/ /\ Selected(TOOLS) = <<>> /\ mode = "all"
          /\ todo' = todo
          /\ Step("cli_filter")
       \/ /\ Selected(TOOLS) = <<>> /\ mode # "all"
          /\ todo' = todo
          /\ Die
    /\ NoFault
    /\ UNCHANGED <<cfgVars, wsVars, resVars, buildVars, baseline_label,
                   baseline_bin, reused, obsVars, warns, cmdVars>>
mcp_filter ==
    /\ pc = "mcp_filter"
    /\ \/ /\ Selected(TOOLS) # <<>>
          /\ todo' = Selected(TOOLS)
          /\ Step("bench")
       \/ /\ Selected(TOOLS) = <<>>
          /\ todo' = todo
          /\ Die
    /\ NoFault
    /\ UNCHANGED <<cfgVars, wsVars, resVars, buildVars, baseline_label,
                   baseline_bin, reused, obsVars, warns, cmdVars>>

\* bench() that calls hyperfine without check=True and goes on when it fails
bench_NoCheck ==
    /\ pc = "bench"
    /\ \E pre \in {"ok", "fail", "timeout"}, hf_ok \in BOOLEAN :
        LET op == Head(todo)
            node_ok == pre = "ok"
            n == (IF node_ok THEN 0 ELSE 1) + (IF hf_ok THEN 0 ELSE 1)
            cands == bench_cands(op.name, op.params, UDID, SWIFT_MCP, NODE_SERVER,
                                 IF baseline_bin # None THEN Some(BASELINE_MCP) ELSE None,
                                 node_ok)
        IN  /\ faults + n <= MaxFaults
            /\ faults' = faults + n
            /\ warns' = warns + (IF node_ok THEN 0 ELSE 1)
            /\ hf' = Append(hf, [cat |-> "mcp", op |-> op.name, cands |-> cands,
                                 checked |-> <<"ext">>, pre |-> pre,
                                 passed |-> IF node_ok THEN {"ext"} ELSE {},
                                 ok |-> hf_ok])
            /\ resFiles' = (IF hf_ok
                            THEN WriteFiles(resFiles,
                                     hyperfine_export(mcp_file(op.name, ".json"),
                                                      mcp_file(op.name, ".md"), cands))
                            ELSE resFiles)
            /\ todo' = Tail(todo)
            /\ IF Tail(todo) = <<>>
               THEN (IF mode = "all" THEN Step(AfterMcpBench)
                     ELSE StepPhase(AfterMcpBench, "Reporting"))
               ELSE Step("bench")
    /\ UNCHANGED <<cfgVars, wsVars, resExists, buildVars, baseline_label,
                   baseline_bin, reused, cleanups, report, vcs, cmdVars>>
\* One call of bench() from the loop of main(): the node pre-check, then
\* hyperfine with check=True.  A pre-check that hangs is ended by the perl
\* alarm after 5 s, inside the 10 s of subprocess.run, and so returns a
\* non-zero status like one that fails.
bench ==
    /\ pc = "bench"
    /\ \E pre \in {"ok", "fail", "timeout"}, hf_ok \in BOOLEAN :
        LET op == Head(todo)
            node_ok == pre = "ok"
            n == (IF node_ok THEN 0 ELSE 1) + (IF hf_ok THEN 0 ELSE 1)
            cands == bench_cands(op.name, op.params, UDID, SWIFT_MCP, NODE_SERVER,
                                 IF baseline_bin # None THEN Some(BASELINE_MCP) ELSE None,
                                 node_ok)
        IN  /\ faults + n <= MaxFaults
            /\ faults' = faults + n
            /\ warns' = warns + (IF node_ok THEN 0 ELSE 1)
            /\ hf' = Append(hf, [cat |-> "mcp", op |-> op.name, cands |-> cands,
                                 checked |-> <<"ext">>, pre |-> pre,
                                 passed |-> IF node_ok THEN {"ext"} ELSE {},
                                 ok |-> hf_ok])
            /\ IF hf_ok
               THEN /\ resFiles' = WriteFiles(resFiles,
                           hyperfine_export(mcp_file(op.name, ".json"),
                                            mcp_file(op.name, ".md"), cands))
                    /\ todo' = Tail(todo)
                    /\ IF Tail(todo) = <<>>
                       THEN (IF mode = "all" THEN Step(AfterMcpBench)
                             ELSE StepPhase(AfterMcpBench, "Reporting"))
                       ELSE Step("bench")
               ELSE /\ Raise
                    /\ UNCHANGED <<resFiles, todo>>
    /\ UNCHANGED <<cfgVars, wsVars, resExists, buildVars, baseline_label,
                   baseline_bin, reused, cleanups, report, vcs, cmdVars>>

cli_filter ==
    /\ pc = "cli_filter"
    /\ \/ /\ Selected(CLI_TOOLS) # <<>>
          /\ todo' = Selected(CLI_TOOLS)
          /\ Step("cli_bench")
       \/ /\ Selected(CLI_TOOLS) = <<>>
          /\ todo' = todo
          /\ Die
    /\ NoFault
    /\ UNCHANGED <<cfgVars, wsVars, resVars, buildVars, baseline_label,
                   baseline_bin, reused, obsVars, warns, cmdVars>>

\* One call of cli_bench() from the loop of main(): the pre-check runs the
\* external command itself, not wrapped in the alarm, under the 10 s of
\* subprocess.run, whose TimeoutExpired nothing catches.
cli_bench ==
    /\ pc = "cli_bench"
    /\ \E pre \in {"ok", "fail", "timeout"}, hf_ok \in BOOLEAN :
        LET op == Head(todo)
            n == (IF pre = "ok" THEN 0 ELSE 1) + (IF hf_ok THEN 0 ELSE 1)
            cands == cli_bench_cands(
                         Format(op.swift_tpl, SWIFT_BIN, IDB, UDID),
                         Format(op.baseline_tpl, SWIFT_BIN, IDB, UDID),
                         IF baseline_bin # None
                         THEN Some(Format(op.swift_tpl, BASELINE_BIN, IDB, UDID))
                         ELSE None,
                         pre = "ok")
        IN  /\ faults + n <= MaxFaults
            /\ faults' = faults + n
            /\ IF pre = "timeout"
               THEN /\ hf_ok
                    /\ RaiseAt("cli_precheck")
                    /\ UNCHANGED <<warns, hf, resFiles, todo>>
               ELSE /\ warns' = warns + (IF pre = "ok" THEN 0 ELSE 1)
                    /\ hf' = Append(hf, [cat |-> "cli", op |-> op.name, cands |-> cands,
                                         checked |-> <<"ext">>, pre |-> pre,
                                         passed |-> IF pre = "ok" THEN {"ext"} ELSE {},
                                         ok |-> hf_ok])
                    /\ IF hf_ok
                       THEN /\ resFiles' = WriteFiles(resFiles,
                                   hyperfine_export(cli_file(op.name, ".json"),
                                                    cli_file(op.name, ".md"), cands))
                            /\ todo' = Tail(todo)
                            /\ IF Tail(todo) = <<>>
                               THEN StepPhase("summary", "Reporting")
                               ELSE Step("cli_bench")
                       ELSE /\ Raise
                            /\ UNCHANGED <<resFiles, todo>>
    /\ UNCHANGED <<cfgVars, wsVars, resExists, buildVars, baseline_label,
                   baseline_bin, reused, cleanups, report, vcs, cmdVars>>

(***************************************************************************)
(* The summary.                                                            *)
(***************************************************************************)
\* The tokens file names are made of, in the order of their text.
TokenOrder ==
    <<".json", ".md", "cli_", "describe_all", "describe_point", "get_booted_sim_id",
      "screenshot", "summary", "tap", "view">>

TokenRank(t) == CHOOSE i \in DOMAIN TokenOrder : TokenOrder[i] = t

\* a < b for two file names, compared as text
RECURSIVE NameLess(_, _)
NameLess(a, b) ==
    IF b = <<>> THEN FALSE
    ELSE IF a = <<>> THEN TRUE
    ELSE IF Head(a) = Head(b) THEN NameLess(Tail(a), Tail(b))
    ELSE TokenRank(Head(a)) < TokenRank(Head(b))

\* sorted(files): by name
RECURSIVE sorted(_)
sorted(S) ==
    IF S = {} THEN <<>>
    ELSE LET m == CHOOSE x \in S : \A y \in S : ~NameLess(y.name, x.name)
         IN  <<m>> \o sorted(S \ {m})

Ext(f) == f.name[Len(f.name)]

\* Path.stem, and str.removeprefix("cli_") on it
Stem(f) == SubSeq(f.name, 1, Len(f.name) - 1)

StartsWithCli(f) == Head(f.name) = "cli_"

Display(f) == IF Head(Stem(f)) = "cli_" THEN Tail(Stem(f)) ELSE Stem(f)

\* f"{mean:.3f}s": a duration in whole milliseconds
Fmt3(us) == (us + 500) \div 1000

\* f"{b_mean / a_mean:.2f}x": a ratio in hundredths
Fmt2(b, a) == (200 * b + a) \div (2 * a)

NA(label) == [label |-> label, na |-> TRUE, mean |-> -1, speedup |-> -1]

\* a row that prints zeros for a position the file does not have
TableRow_Zero(tool, results, labels) ==
    [tool |-> tool,
     cells |-> [i \in DOMAIN labels |->
         IF i = 1
         THEN [label |-> labels[1], na |-> FALSE, mean |-> Fmt3(results[1].mean),
               speedup |-> -1]
         ELSE IF i <= Len(results)
         THEN [label |-> labels[i], na |-> FALSE, mean |-> Fmt3(results[i].mean),
               speedup |-> Fmt2(results[i].mean, results[1].mean)]
         ELSE [label |-> labels[i], na |-> FALSE, mean |-> 0, speedup |-> 0]]]

\* a row whose speedup is the primary's mean over the reference's
TableRow_Inverted(tool, results, labels) ==
    [tool |-> tool,
     cells |-> [i \in DOMAIN labels |->
         IF i = 1
         THEN [label |-> labels[1], na |-> FALSE, mean |-> Fmt3(results[1].mean),
               speedup |-> -1]
         ELSE IF i <= Len(results)
         THEN [label |-> labels[i], na |-> FALSE, mean |-> Fmt3(results[i].mean),
               speedup |-> Fmt2(results[1].mean, results[i].mean)]
         ELSE NA(labels[i])]]
\* One row of _speedup_table for the results of one file: the primary's cell,
\* then one cell per further label, by position.
TableRow(tool, results, labels) ==
    [tool |-> tool,
     cells |-> [i \in DOMAIN labels |->
         IF i = 1
         THEN [label |-> labels[1], na |-> FALSE, mean |-> Fmt3(results[1].mean),
               speedup |-> -1]
         ELSE IF i <= Len(results)
         THEN [label |-> labels[i], na |-> FALSE, mean |-> Fmt3(results[i].mean),
               speedup |-> Fmt2(results[i].mean, results[1].mean)]
         ELSE NA(labels[i])]]

_speedup_table(json_files, labels) ==
    [k \in DOMAIN json_files |->
        TableRow(Display(json_files[k])[1], json_files[k].results, labels)]

\* The two sections of generate_summary(): each is None, or the headings of
\* the per-operation reports and the speedup table (None without json files).
Section(mds, jsons, labels) ==
    IF mds = <<>> THEN None
    ELSE Some([headings |-> [k \in DOMAIN mds |-> Display(mds[k])[1]],
               table |-> IF jsons = <<>> THEN None
                         ELSE Some(_speedup_table(jsons, labels))])

\* a summary whose protocol-level table takes every json file of the directory
generate_summary_AnyJson(files, label) ==
    LET mcp_mds == sorted({f \in files : Ext(f) = ".md" /\ ~StartsWithCli(f)
                                          /\ f.name # <<"summary", ".md">>})
        mcp_jsons == sorted({f \in files : Ext(f) = ".json"})
        cli_mds == sorted({f \in files : Ext(f) = ".md" /\ StartsWithCli(f)})
        cli_jsons == sorted({f \in files : Ext(f) = ".json" /\ StartsWithCli(f)})
    IN  [mcp |-> Section(mcp_mds, mcp_jsons,
                     IF label # None
                     THEN <<"Swift (current)", "Swift (baseline)", "Node">>
                     ELSE <<"Swift", "Node">>),
         cli |-> Section(cli_mds, cli_jsons,
                     IF label # None
                     THEN <<"Swift CLI (current)", "Swift CLI (baseline)", "idb">>
                     ELSE <<"Swift CLI", "idb">>)]
generate_summary(files, label) ==
    LET mcp_mds == sorted({f \in files : Ext(f) = ".md" /\ ~StartsWithCli(f)
                                          /\ f.name # <<"summary", ".md">>})
        mcp_jsons == sorted({f \in files : Ext(f) = ".json" /\ ~StartsWithCli(f)})
        cli_mds == sorted({f \in files : Ext(f) = ".md" /\ StartsWithCli(f)})
        cli_jsons == sorted({f \in files : Ext(f) = ".json" /\ StartsWithCli(f)})
    IN  [mcp |-> Section(mcp_mds, mcp_jsons,
                     IF label # None
                     THEN <<"Swift (current)", "Swift (baseline)", "Node">>
                     ELSE <<"Swift", "Node">>),
         cli |-> Section(cli_mds, cli_jsons,
                     IF label # None
                     THEN <<"Swift CLI (current)", "Swift CLI (baseline)", "idb">>
                     ELSE <<"Swift CLI", "idb">>)]

\* a summary followed by the removal of the baseline workspace
summary_CleansUp ==
    /\ pc = "summary"
    /\ report' = Some(generate_summary(resFiles, baseline_label))
    /\ resFiles' = WriteFiles(resFiles,
                      {[name |-> <<"summary", ".md">>, by |-> "run", results |-> <<>>]})
    /\ pc' = "done" /\ exit' = "zero" /\ phases' = Append(phases, "Done")
    /\ wsExists' = FALSE /\ wsReg' = FALSE /\ wsBin' = FALSE
    /\ NoFault
    /\ UNCHANGED <<cfgVars, wsGen, resExists, buildVars, localVars, hf, cleanups, vcs,
                   errs, warns, abortAt, cmdVars>>
\* summary = generate_summary(...); summary_path.write_text(summary)
summary ==
    /\ pc = "summary"
    /\ report' = Some(generate_summary(resFiles, baseline_label))
    /\ resFiles' = WriteFiles(resFiles,
                      {[name |-> <<"summary", ".md">>, by |-> "run", results |-> <<>>]})
    /\ pc' = "done" /\ exit' = "zero" /\ phases' = Append(phases, "Done")
    /\ NoFault
    /\ UNCHANGED <<cfgVars, wsVars, resExists, buildVars, localVars, hf, cleanups, vcs,
                   errs, warns, abortAt, cmdVars>>

(***************************************************************************)
(* The run.                                                                *)
(***************************************************************************)
Next ==
    \/ check_prerequisites
    \/ get_udid
    \/ resolve_jj_revision
    \/ current_rev
    \/ update_stale
    \/ rebase
    \/ fresh_rmtree
    \/ fresh_forget
    \/ fresh_add
    \/ start_builds
    \/ \E label \in {"Current", "Baseline"} : _swift_build(label)
    \/ join_builds
    \/ bin_check
    \/ cleanup_forget
    \/ cleanup_rmtree
    \/ node_check
    \/ \E label \in {"Swift", "Node"} : smoke_test(label)
    \/ idb_check
    \/ idb_connect
    \/ cli_smoke_test
    \/ reset_results
    \/ mcp_filter
    \/ bench
    \/ cli_filter
    \/ cli_bench
    \/ summary

Spec == Init /\ [][Next]_vars

(***************************************************************************)
(* The command builder on its own: mcp_call_cmd applied to an operation of *)
(* TOOLS, a parameter set, a device identifier and a server command.       *)
(***************************************************************************)
ParamSets ==
    { None,
      Some(<<>>),
      Some(<< <<"x", "165">>, <<"y", "269">> >>),
      Some(<< <<"udid", "OLD">> >>),
      Some(<< <<"x", "165">>, <<"udid", "UDID-2">>, <<"y", "269">> >>),
      Some(<< <<"udid", "UDID-1">>, <<"y", "269">> >>) }

CmdInit ==
    /\ MainInit("cli", FALSE, <<>>, CHOOSE tm \in Timings : TRUE, FALSE, FALSE)
    /\ cmdArgs \in [tool : {TOOLS[i].name : i \in DOMAIN TOOLS}, params : ParamSets,
                    udid : {"UDID-1", "UDID-2"}, server_cmd : {SWIFT_MCP, NODE_SERVER}]
    /\ cmdOut = <<>>

call_mcp_call_cmd ==
    /\ cmdOut = <<>>
    /\ cmdOut' = mcp_call_cmd(cmdArgs.tool, cmdArgs.params, cmdArgs.udid,
                              cmdArgs.server_cmd)
    /\ UNCHANGED <<cfgVars, pc, wsVars, resVars, buildVars, localVars, obsVars,
                   errs, warns, exit, abortAt, phases, faults, cmdArgs>>

CmdNext == call_mcp_call_cmd

CmdSpec == CmdInit /\ [][CmdNext]_vars

(***************************************************************************)
(* Runs one after the other: when a run has exited, main() is started      *)
(* again, with options of its own, on the directories and binaries the     *)
(* runs before it left.  Faults are counted over all the runs.             *)
(***************************************************************************)
\* the timing of the runs of a sequence
RunTiming == [primary |-> 10000, self |-> 12000, ext |-> 30000]

\* the --tool values of the runs of a sequence: one operation of either
\* category, and operations of both
RunFilters == {<<"view">>, <<"screenshot">>, <<"view", "tap", "view">>}

\* the files of the results directory, seen from the next run
Earlier(files) == {[f EXCEPT !.by = "earlier"] : f \in files}

\* the first run, on a machine without workspace and without results
RunsInit ==
    /\ \E m \in Modes, b \in BOOLEAN, t \in RunFilters :
            MainInit(m, b, t, RunTiming, FALSE, FALSE)
    /\ cmdArgs = NoCall /\ cmdOut = <<>>

\* main() is started again after the process of the run before has exited
restart ==
    /\ pc \in {"done", "aborted"}
    /\ \E m \in Modes, b \in BOOLEAN, t \in RunFilters :
            mode' = m /\ do_baseline' = b /\ tools' = t
    /\ timing' = timing
    /\ pc' = "check_prerequisites"
    /\ curBuild' = "idle" /\ baseBuild' = "idle" /\ curBin' = curBin
    /\ baseline_label' = None /\ baseline_bin' = None /\ reused' = FALSE
    /\ todo' = <<>>
    /\ UNCHANGED <<wsVars, resExists, faults, cmdVars>>
    /\ resFiles' = Earlier(resFiles)
    /\ errs' = 0 /\ warns' = 0 /\ exit' = "none" /\ abortAt' = "none"
    /\ hf' = <<>> /\ phases' = <<"Init">> /\ cleanups' = 0
    /\ report' = None /\ vcs' = <<>>
    /\ start' = [ws |-> <<wsExists, wsGen, wsReg, wsBin>>,
                 res |-> <<resExists, Earlier(resFiles)>>,
                 after |-> [pc |-> pc, baseline |-> do_baseline]]

RunsNext == Next \/ restart

RunsSpec == RunsInit /\ [][RunsNext]_vars

(***************************************************************************)
(* Properties.                                                             *)
(***************************************************************************)
Aborted == pc = "aborted"

Staged == baseline_label # None

Last(q) == q[Len(q)]

CandsOf(h) == [j \in DOMAIN h.cands |-> h.cands[j].cand]

\* the candidate a column of the speedup table is headed for
LabelCand(label) ==
    CASE label \in {"Swift (baseline)", "Swift CLI (baseline)"} -> "self"
      [] label \in {"Node", "idb"} -> "ext"
      [] OTHER -> "primary"

\* C1 (as stated): a run that aborts after the baseline workspace was staged
\* has run cleanup_baseline() before it exits.
C1_CleanupOnEveryAbort ==
    (Aborted /\ Staged) => cleanups > 0

\* C1 (amended): of the aborts after staging only the one for a missing
\* baseline binary runs cleanup_baseline() (forget, then remove) before the
\* exit; on every other abort no cleanup runs and the workspace directory and
\* its registration stay as staged.
C1_CleanupOnlyForMissingBinary ==
    (Aborted /\ Staged) =>
        /\ cleanups > 0 <=> abortAt \in {"bin_check", "cleanup_forget"}
        /\ cleanups = 0 =>
              /\ wsExists /\ wsReg
              /\ Last(vcs) \in {<<"rebase", "ok">>, <<"add", "ok">>}
        /\ abortAt = "bin_check" =>
              /\ ~wsExists
              /\ Len(vcs) >= 2
              /\ vcs[Len(vcs) - 1][1] = "forget" /\ Last(vcs) = <<"rmtree", "ok">>

\* C1 witness: the baseline build failed after staging and the run has exited
\* with the workspace still there.
C1_Witness ==
    /\ Aborted /\ Staged /\ baseBuild = "failed" /\ curBuild = "ok"
    /\ cleanups = 0 /\ wsExists /\ exit = "nonzero"

RunLevelExt == {"node_check", "smoke_Node", "idb_check", "cli_smoke_idb"}

McpEmpty == tools # <<>> /\ \A i \in DOMAIN TOOLS : TOOLS[i].name \notin Range(tools)

CliEmpty ==
    tools # <<>> /\ \A i \in DOMAIN CLI_TOOLS : CLI_TOOLS[i].name \notin Range(tools)

\* C3 (as stated): when the run aborts for an empty selection, no build has
\* been started.
C3_EmptyFilterBeforeBuild ==
    (Aborted /\ abortAt \in {"mcp_filter", "cli_filter"}) => curBuild = "idle"

\* C3 (what main() does instead): when the filter selects no operation of an
\* enabled category, the run reports the error and aborts with non-zero
\* status before any operation of that category is measured and never writes
\* a summary, but only after the builds, the smoke tests and the reset of the
\* results directory.
C3_EmptyFilterBeforeMeasuring ==
    /\ (mode \in {"mcp", "all"} /\ McpEmpty) =>
          /\ pc \notin {"bench", "cli_filter", "cli_bench", "summary", "done"}
          /\ hf = <<>>
    /\ (mode \in {"cli", "all"} /\ CliEmpty) =>
          /\ pc \notin {"cli_bench", "summary", "done"}
          /\ \A i \in DOMAIN hf : hf[i].cat # "cli"
    /\ (Aborted /\ abortAt = "mcp_filter") =>
          /\ McpEmpty /\ exit = "nonzero" /\ errs > 0
          /\ curBuild = "ok" /\ resExists /\ resFiles = {}
    /\ (Aborted /\ abortAt = "cli_filter") =>
          /\ CliEmpty /\ exit = "nonzero" /\ errs > 0
          /\ curBuild = "ok" /\ resExists /\ \A f \in resFiles : f.by = "run"

\* C3, the case reached: the run aborted at the protocol-level filter with
\* both builds done.
C3_Witness ==
    /\ Aborted /\ abortAt = "mcp_filter"
    /\ curBuild = "ok" /\ baseBuild = "ok" /\ resFiles = {}

\* C4: the candidates of every hyperfine invocation, of either category, are
\* the primary, then the self-baseline if self-comparison is enabled, then the
\* external reference if its pre-check passed.
C4_PrimaryFirst ==
    \A i \in DOMAIN hf :
        CandsOf(hf[i]) =
            <<"primary">>
            \o (IF do_baseline THEN <<"self">> ELSE <<>>)
            \o (IF "ext" \in hf[i].passed THEN <<"ext">> ELSE <<>>)

\* C4 witness: a run of both categories with self-comparison has measured a
\* protocol-level operation without the external reference and a
\* direct-invocation operation with all three candidates.
C4_Witness ==
    /\ pc = "done" /\ mode = "all" /\ do_baseline
    /\ \E i \in DOMAIN hf : hf[i].cat = "mcp" /\ Len(hf[i].cands) = 2
    /\ \E i \in DOMAIN hf : hf[i].cat = "cli" /\ Len(hf[i].cands) = 3

\* C5 (as stated): every command mcp_call_cmd builds holds the device
\* identifier exactly once.
C5_UdidExactlyOnce ==
    cmdOut # <<>> => Count(cmdOut, cmdArgs.udid) = 1

\* C5 (amended): the command holds the device identifier exactly once, except
\* for get_booted_sim_id without parameters, for which no parameter set is
\* sent and the command does not hold the identifier.
C5_UdidOnceButForGetBootedSimId ==
    cmdOut # <<>> =>
        Count(cmdOut, cmdArgs.udid) =
            (IF cmdArgs.tool = "get_booted_sim_id" /\ cmdArgs.params = None
             THEN 0 ELSE 1)

\* C5 witness: the command of an operation without parameters, other than
\* get_booted_sim_id, holds the synthesized identifier.
C5_Witness ==
    /\ cmdOut # <<>> /\ cmdArgs.tool = "view" /\ cmdArgs.params = None
    /\ Count(cmdOut, cmdArgs.udid) = 1

\* the row of operation op in a section of the report
RowsOf(section, op) ==
    IF section = None \/ section[1].table = None THEN {}
    ELSE {k \in DOMAIN section[1].table[1] : section[1].table[1][k].tool = op}

\* C6: in the report of a finished run every measured operation has one row
\* in its category's table; the primary column holds the primary's mean, each
\* reference column holds the mean and the speedup of its own candidate if
\* that candidate was measured for the operation and N/A if it was dropped.
C6_ColumnsKeepTheirCandidate ==
    pc = "done" =>
        \A i \in DOMAIN hf :
            LET h == hf[i]
                section == IF h.cat = "mcp" THEN report[1].mcp ELSE report[1].cli
                rows == RowsOf(section, h.op)
            IN  /\ Cardinality(rows) = 1
                /\ \A k \in rows :
                    LET cells == section[1].table[1][k].cells
                    IN  /\ ~cells[1].na
                        /\ cells[1].mean = Fmt3(timing["primary"])
                        /\ {LabelCand(cells[c].label) : c \in 2..Len(cells)}
                             = {"ext"} \cup (IF do_baseline THEN {"self"} ELSE {})
                        /\ \A c \in 2..Len(cells) :
                            LET cand == LabelCand(cells[c].label)
                            IN  IF cand \in Range(CandsOf(h))
                                THEN /\ ~cells[c].na
                                     /\ cells[c].mean = Fmt3(timing[cand])
                                     /\ cells[c].speedup
                                          = Fmt2(timing[cand], timing["primary"])
                                ELSE cells[c] = NA(cells[c].label)

\* C6 witness: a finished run with self-comparison whose report has a row for
\* tap without the external reference and a row for view with it.
C6_Witness ==
    /\ pc = "done" /\ do_baseline
    /\ \E i, j \in DOMAIN hf :
        /\ hf[i].cat = "mcp" /\ hf[i].op = "tap" /\ hf[i].passed = {}
        /\ hf[j].cat = "mcp" /\ hf[j].op = "view" /\ hf[j].passed = {"ext"}

\* C7 (as stated): every candidate but the primary that hyperfine is given
\* was pre-checked once for that operation.
C7_EveryReferenceChecked ==
    \A i \in DOMAIN hf :
        \A j \in 2..Len(hf[i].cands) :
            Count(hf[i].checked, hf[i].cands[j].cand) = 1

\* C7 (amended): before hyperfine is invoked for an operation the external
\* reference, and only it, has been pre-checked once, and it is among the
\* candidates exactly if its pre-check passed; the self-baseline is not
\* pre-checked and is among the candidates whenever self-comparison is enabled.
C7_OnlyExternalChecked ==
    \A i \in DOMAIN hf :
        /\ hf[i].checked = <<"ext">>
        /\ hf[i].passed \subseteq {"ext"}
        /\ "ext" \in Range(CandsOf(hf[i])) <=> "ext" \in hf[i].passed
        /\ "self" \in Range(CandsOf(hf[i])) <=> do_baseline

\* C7 witness: a direct-invocation operation was measured with the unchecked
\* self-baseline and without the external reference, whose pre-check failed.
C7_Witness ==
    \E i \in DOMAIN hf :
        /\ hf[i].cat = "cli" /\ hf[i].passed = {}
        /\ CandsOf(hf[i]) = <<"primary", "self">>

VcsCmds == [j \in DOMAIN vcs |-> vcs[j][1]]

\* C8: once staging has reused the existing workspace, no command of the run
\* has removed or recreated the directory or forgotten its registration, up
\* to a later cleanup: the directory and its registration are those the run
\* found.
C8_ReuseKeepsDirectory ==
    (reused /\ cleanups = 0) =>
        /\ wsExists /\ start.ws[1]
        /\ wsGen = start.ws[2] /\ wsReg = start.ws[3]
        /\ Range(VcsCmds) \cap {"rmtree", "forget", "add"} = {}

\* C8 witness: staging has returned through the reuse path.
C8_Witness ==
    reused /\ pc = "build" /\ Last(vcs) = <<"rebase", "ok">>

\* what the run did after the rebase at place i of the log
AfterRebase(i) == SubSeq(vcs, i + 1, Len(vcs))

EarlyAborts ==
    {"check_prerequisites", "get_udid", "resolve_jj_revision", "current_rev",
     "update_stale", "rebase", "fresh_forget", "fresh_add", "join", "bin_check",
     "cleanup_forget"}

\* C10: a run that aborts while checking prerequisites, resolving the
\* revision, staging or building exits with non-zero status with no
\* measurement made, and the results directory is as the run found it.
C10_EarlyAbortKeepsResults ==
    (Aborted /\ abortAt \in EarlyAborts) =>
        /\ exit = "nonzero"
        /\ hf = <<>> /\ report = None
        /\ <<resExists, resFiles>> = start.res

\* C10 witness: the creation of the workspace failed and the files of the
\* earlier run are still in the results directory.
C10_Witness ==
    /\ Aborted /\ abortAt = "fresh_add" /\ Last(vcs) = <<"add", "fail">>
    /\ resExists /\ resFiles = EarlierFiles


\* C11: hyperfine is never invoked in a run in which a build exited non-zero
\* or timed out: once both builds have ended and one of them did not succeed,
\* the run has aborted with non-zero status and has gone no further than the
\* build phase, whichever build failed.
C11_NoMeasurementAfterFailedBuild ==
    /\ hf # <<>> => (curBuild = "ok" /\ baseBuild = (IF do_baseline THEN "ok" ELSE "idle"))
    /\ ({curBuild, baseBuild} \cap {"failed", "timeout"} # {} /\ pc # "join") =>
          /\ Aborted /\ abortAt = "join" /\ exit = "nonzero"
          /\ "Built" \notin Range(phases)
          /\ hf = <<>> /\ report = None

\* C11 witness: the current build failed while the baseline build succeeded,
\* and the run has aborted.
C11_Witness ==
    /\ Aborted /\ curBuild = "failed" /\ baseBuild = "ok" /\ exit = "nonzero"

\* C12 (as stated): a run whose current build succeeded without leaving its
\* binary goes no further than the artifact check.
C12_EveryBinaryChecked ==
    (curBuild = "ok" /\ ~curBin /\ pc # "join") =>
        \/ pc \in {"bin_check", "cleanup_forget", "cleanup_rmtree"}
        \/ Aborted /\ abortAt \in {"join", "bin_check", "cleanup_forget"}

\* C12 (amended): after the builds the run checks the baseline binary only,
\* and aborts with an error before the smoke tests if it is absent.  The
\* binary of the current build is not checked: when it is absent the run goes
\* on to the run-level checks and aborts there, at the latest in the first
\* smoke test of the primary, before any measurement.
C12_OnlyBaselineBinaryChecked ==
    /\ ("Built" \in Range(phases) /\ do_baseline) => wsBin /\ baseline_bin # None
    /\ (Aborted /\ abortAt = "bin_check") =>
          /\ errs > 0 /\ exit = "nonzero" /\ baseBuild = "ok"
          /\ "Built" \notin Range(phases) /\ hf = <<>>
    /\ (curBuild = "ok" /\ ~curBin) =>
          /\ hf = <<>> /\ "SmokeTested" \notin Range(phases)
          /\ (Aborted /\ "Built" \in Range(phases)) =>
                abortAt \in {"node_check", "smoke_Swift", "idb_check", "idb_connect",
                             "cli_smoke_Swift"}

\* C12 witness: the current build left no binary, the run passed the build
\* phase and aborted in the smoke test of the Swift server.
C12_Witness ==
    /\ Aborted /\ abortAt = "smoke_Swift" /\ curBuild = "ok" /\ ~curBin
    /\ "Built" \in Range(phases) /\ faults = 1

\* the phases of a run, in order; BaselineStaged only with self-comparison
PhaseOrder ==
    <<"Init", "PrerequisitesChecked">>
    \o (IF do_baseline THEN <<"BaselineStaged">> ELSE <<>>)
    \o <<"Built", "SmokeTested", "Measuring", "Reporting", "Done">>

\* the phases the run completed, without the final Aborted
Completed ==
    IF Last(phases) = "Aborted" THEN SubSeq(phases, 1, Len(phases) - 1) ELSE phases

\* C13: the phases a run has completed are an initial part of Init,
\* PrerequisitesChecked, BaselineStaged (exactly with self-comparison), Built,
\* SmokeTested, Measuring, Reporting, Done, each at most once; the run is in
\* Aborted exactly when it has aborted, a finished run has completed them all,
\* and after Aborted or Done no step of the run is possible.
C13_PhasesInOrder ==
    /\ Len(Completed) <= Len(PhaseOrder)
    /\ Completed = SubSeq(PhaseOrder, 1, Len(Completed))
    /\ "Aborted" \notin Range(Completed)
    /\ Aborted <=> Last(phases) = "Aborted"
    /\ pc = "done" <=> phases = PhaseOrder
    /\ (Aborted \/ pc = "done") => ~ENABLED Next

\* C13 witness: a run with self-comparison in both categories is done, and
\* has passed through every phase.
C13_Witness ==
    /\ pc = "done" /\ do_baseline /\ mode = "all"
    /\ phases = <<"Init", "PrerequisitesChecked", "BaselineStaged", "Built",
                  "SmokeTested", "Measuring", "Reporting", "Done">>

\* C14: a reference whose pre-check for an operation timed out is left out of
\* that operation's measurement, and the run does not abort for it.
C14_PrecheckTimeoutDrops ==
    /\ \A i \in DOMAIN hf :
          hf[i].pre = "timeout" => "ext" \notin Range(CandsOf(hf[i]))
    /\ Aborted => abortAt # "cli_precheck"

\* the operations of a category that the run has measured
MeasuredOps(cat) == {hf[i].op : i \in {j \in DOMAIN hf : hf[j].cat = cat /\ hf[j].ok}}

\* the operations a section of the report names, in headings and in rows
SectionOps(section) ==
    IF section = None THEN {}
    ELSE Range(section[1].headings)
         \cup (IF section[1].table = None THEN {}
               ELSE {section[1].table[1][k].tool : k \in DOMAIN section[1].table[1]})

\* C15: from the moment a run measures, the results directory holds no file
\* of an earlier run, and the report of the run names, in each category, only
\* operations measured in this run.
C15_NoArtifactOfEarlierRun ==
    /\ "Measuring" \in Range(phases) =>
          /\ resExists
          /\ \A f \in resFiles : f.by = "run"
    /\ pc = "done" =>
          /\ SectionOps(report[1].mcp) = MeasuredOps("mcp")
          /\ SectionOps(report[1].cli) = MeasuredOps("cli")

\* C15 witness: an earlier run left results of both categories, and this run,
\* of the protocol-level category only and of other operations, is done.
C15_Witness ==
    /\ pc = "done" /\ start.res = <<TRUE, EarlierFiles>>
    /\ mode = "mcp" /\ MeasuredOps("mcp") = {"describe_all", "describe_point",
                                             "get_booted_sim_id", "tap", "view"}
    /\ report[1].cli = None

\* the operations that have a json file of a category in the results directory
JsonOps(cli) ==
    {Display(f)[1] : f \in {g \in resFiles : Ext(g) = ".json" /\ StartsWithCli(g) = cli}}

\* the operations of the rows of a section's speedup table, in order
RowOps(section) ==
    IF section = None \/ section[1].table = None THEN <<>>
    ELSE [k \in DOMAIN section[1].table[1] |-> section[1].table[1][k].tool]

\* each operation of ops is in rows once, and rows are in the order of the text
SortedRowsOf(rows, ops) ==
    /\ Len(rows) = Cardinality(ops)
    /\ Range(rows) = ops
    /\ \A k \in 1..(Len(rows) - 1) : TokenRank(rows[k]) < TokenRank(rows[k + 1])

\* C16: in the report of a finished run the speedup table of each category has
\* one row for each json file of that category in the results directory and
\* no other, in the order of the file names.
C16_OneSortedRowPerFile ==
    pc = "done" =>
        /\ SortedRowsOf(RowOps(report[1].mcp), JsonOps(FALSE))
        /\ SortedRowsOf(RowOps(report[1].cli), JsonOps(TRUE))

\* C16 witness: a finished run of both categories measured get_booted_sim_id
\* before describe_all and tap before screenshot, and reports them in the
\* other order.
C16_Witness ==
    /\ pc = "done" /\ mode = "all"
    /\ \E i, j \in DOMAIN hf :
          i < j /\ hf[i].op = "get_booted_sim_id" /\ hf[j].op = "describe_all"
    /\ \E i, j \in DOMAIN hf :
          i < j /\ hf[i].cat = "cli" /\ hf[i].op = "tap" /\ hf[j].op = "screenshot"
    /\ RowOps(report[1].mcp)[1] = "describe_all"
    /\ RowOps(report[1].cli) = <<"describe_all", "describe_point", "screenshot", "tap">>

\* the cells of the row that the report of the run has for a json file
CellsOf(f) ==
    LET section == IF StartsWithCli(f) THEN report[1].cli ELSE report[1].mcp
        k == CHOOSE r \in RowsOf(section, Display(f)[1]) : TRUE
    IN  section[1].table[1][k].cells

\* the json files of the results directory
JsonFiles == {f \in resFiles : Ext(f) = ".json"}

\* C17 (as stated): for every json file and every reference position i in it,
\* the speedup printed in the row (in hundredths) is the mean at i divided by
\* the mean at position 0, and is greater than zero.
C17_SpeedupIsTheRatio ==
    pc = "done" =>
        \A f \in JsonFiles : \A i \in 2..Len(f.results) :
            /\ CellsOf(f)[i].speedup * f.results[1].mean = 100 * f.results[i].mean
            /\ CellsOf(f)[i].speedup > 0

\* C17 (amended): the speedup printed is the mean at i divided by the mean at
\* position 0, rounded to two decimals: it is within half a hundredth of the
\* ratio, and greater than zero exactly when the ratio is at least 0.005.
\* Means of 10 ms and 30 ms print 3.00x, means of 20 ms and 25 ms print 1.25x.
C17_SpeedupIsTheRoundedRatio ==
    pc = "done" =>
        \A f \in JsonFiles : \A i \in 2..Len(f.results) :
            LET s == CellsOf(f)[i].speedup
                a == f.results[1].mean
                b == f.results[i].mean
            IN  /\ ~CellsOf(f)[i].na
                /\ 2 * (100 * b - s * a) <= a
                /\ 2 * (s * a - 100 * b) < a
                /\ s >= 0
                /\ s > 0 <=> 200 * b >= a
                /\ (a = 10000 /\ b = 30000) => s = 300
                /\ (a = 20000 /\ b = 25000) => s = 125

\* C17 witness: a finished run reports 3.00x for an external reference of
\* 30 ms beside a primary of 10 ms.
C17_Witness ==
    /\ pc = "done" /\ timing.primary = 10000
    /\ \E f \in JsonFiles : \E i \in 2..Len(f.results) :
          /\ f.results[i] = [cand |-> "ext", mean |-> 30000]
          /\ CellsOf(f)[i].speedup = 300

\* C18: a run that has aborted has printed an error(...) message, and the
\* warnings printed are at least the references dropped from an operation.
C18_EveryAbortHasErrorMessage ==
    /\ Aborted => errs > 0
    /\ Cardinality({i \in DOMAIN hf : "ext" \notin hf[i].passed}) <= warns

\* C19: when the revision cannot be resolved (jj log exits non-zero or times
\* out) the run has aborted at once with non-zero status: no build was
\* started, no other jj command was run, and the workspace directory, its
\* registration and its binary are as the run found them.
C19_UnresolvedRevisionTouchesNothing ==
    (vcs # <<>> /\ vcs[1][2] # "ok") =>
        /\ vcs[1][1] = "log" /\ Len(vcs) = 1
        /\ Aborted /\ abortAt = "resolve_jj_revision" /\ exit = "nonzero"
        /\ vcs[1][2] = "fail" => errs > 0
        /\ curBuild = "idle" /\ baseBuild = "idle"
        /\ <<wsExists, wsGen, wsReg, wsBin>> = start.ws
        /\ ~Staged /\ hf = <<>>

\* C19 witness: the resolution failed in a run that found a workspace of an
\* earlier run, and the run has aborted.
C19_Witness ==
    /\ Aborted /\ vcs = << <<"log", "fail">> >>
    /\ start.ws[1] /\ wsExists /\ wsReg

\* the hyperfine invocations of a category, in the order they were made
CallsOf(cat) == SelectSeq(hf, LAMBDA h : h.cat = cat)

\* the place of an operation in the declaration of its category
DeclIndex(all, name) == CHOOSE i \in DOMAIN all : all[i].name = name

\* the names of a category that --tool selects
Wanted(all) ==
    {all[i].name : i \in {j \in DOMAIN all : tools = <<>> \/ all[j].name \in Range(tools)}}

\* the invocations of a category are for wanted operations, in declaration
\* order and so without repetition; a finished run has made one for each
InDeclaredOrderOnce(cat, all, enabled) ==
    LET calls == CallsOf(cat)
    IN  /\ \A k \in DOMAIN calls : calls[k].op \in Wanted(all)
        /\ \A k \in 1..(Len(calls) - 1) :
              DeclIndex(all, calls[k].op) < DeclIndex(all, calls[k + 1].op)
        /\ ~enabled => calls = <<>>
        /\ (pc = "done" /\ enabled) => {calls[k].op : k \in DOMAIN calls} = Wanted(all)

\* C20: in each enabled category hyperfine is invoked for the selected
\* operations in declaration order, once each, whatever the order and the
\* repetitions of --tool; the files in the results directory before the
\* summary are the json and the markdown file of each successful invocation,
\* named by the operation and the category prefix.
C20_DeclarationOrderOncePerOperation ==
    /\ InDeclaredOrderOnce("mcp", TOOLS, mode \in {"mcp", "all"})
    /\ InDeclaredOrderOnce("cli", CLI_TOOLS, mode \in {"cli", "all"})
    /\ ("Measuring" \in Range(phases) /\ pc # "done") =>
          {f.name : f \in resFiles} =
              UNION {{(IF h.cat = "cli" THEN cli_file(h.op, e) ELSE mcp_file(h.op, e))
                         : e \in {".json", ".md"}}
                     : h \in {hf[i] : i \in {j \in DOMAIN hf : hf[j].ok}}}

\* C20 witness: a finished run with --tool view --tool tap --tool view has
\* measured tap and then view, once each, in both categories it applies to.
C20_Witness ==
    /\ pc = "done" /\ mode = "all" /\ tools = <<"view", "tap", "view">>
    /\ [k \in DOMAIN hf |-> <<hf[k].cat, hf[k].op>>]
          = << <<"mcp", "tap">>, <<"mcp", "view">>, <<"cli", "tap">> >>

Building == curBuild = "running" \/ baseBuild = "running"

\* the steps of main() that run a jj command or remove the workspace directory
VcsStep ==
    \/ resolve_jj_revision \/ current_rev \/ update_stale \/ rebase
    \/ fresh_rmtree \/ fresh_forget \/ fresh_add
    \/ cleanup_forget \/ cleanup_rmtree

\* C21: while a build is in progress main() waits at the join: no jj command
\* and no other step of the run can be taken, the staging is complete if
\* self-comparison is enabled, and the log of jj commands does not grow.  The
\* build of the current tree changes only the state and the binary of the
\* current tree, the build of the baseline only those of the workspace.
C21_BuildsOverlapNothingElse ==
    /\ [](Building =>
            /\ pc = "join"
            /\ ~ENABLED VcsStep
            /\ ~ENABLED join_builds
            /\ do_baseline <=> Staged
            /\ baseBuild = "running" => wsExists)
    /\ [][Building =>
            /\ vcs' = vcs /\ pc' = pc
            /\ <<wsExists, wsGen, wsReg>>' = <<wsExists, wsGen, wsReg>>
            /\ curBuild' # curBuild => <<baseBuild, wsBin>>' = <<baseBuild, wsBin>>
            /\ baseBuild' # baseBuild => <<curBuild, curBin>>' = <<curBuild, curBin>>]_vars

\* C21 witness: the staging is done and both builds are in progress.
C21_Witness ==
    /\ curBuild = "running" /\ baseBuild = "running"
    /\ Staged /\ Last(vcs) = <<"add", "ok">>

\* the run before this one reached Done with self-comparison enabled
AfterDoneWithBaseline == start.after = [pc |-> "done", baseline |-> TRUE]

\* C22: a run with self-comparison that reaches Done leaves the workspace
\* directory, registered and built.  In a run with self-comparison right after
\* such a run the directory exists at the start, every removal, forget and
\* creation of the run comes after a rebase in the directory, and once the
\* rebase has succeeded the baseline is built in the directory the run found.
C22_NextRunRebindsFirst ==
    /\ (pc = "done" /\ do_baseline) => wsExists /\ wsReg /\ wsBin
    /\ (AfterDoneWithBaseline /\ do_baseline) =>
          /\ start.ws[1] /\ start.ws[3] /\ start.ws[4]
          /\ \A i \in DOMAIN vcs :
                vcs[i][1] \in {"rmtree", "forget", "add"} =>
                    \E j \in 1..(i - 1) : vcs[j][1] = "rebase"
          /\ (reused /\ cleanups = 0) => wsExists /\ wsGen = start.ws[2]
          /\ (reused /\ baseBuild # "idle") => wsGen = start.ws[2]

\* C22 witness: the second of two runs with self-comparison, the first of
\* which reached Done, has rebound the workspace and builds the baseline in it.
C22_Witness ==
    /\ AfterDoneWithBaseline /\ do_baseline
    /\ reused /\ baseBuild = "running"
    /\ wsExists /\ wsGen = start.ws[2] /\ Last(vcs) = <<"rebase", "ok">>

\* the names of the files that the successful invocations of hyperfine wrote
ArtifactsOf(calls) ==
    UNION {{(IF calls[i].cat = "cli" THEN cli_file(calls[i].op, e)
             ELSE mcp_file(calls[i].op, e)) : e \in {".json", ".md"}}
           : i \in {j \in DOMAIN calls : calls[j].ok}}

\* C23: an invocation of hyperfine that exits non-zero is the last of the run:
\* the run has aborted there with non-zero status, no summary has been
\* generated or written, and the results directory holds the artifacts of the
\* operations measured before it, and nothing else.
C23_MeasurementFailureAbortsThere ==
    \A i \in DOMAIN hf :
        ~hf[i].ok =>
            /\ i = Len(hf)
            /\ Aborted /\ exit = "nonzero"
            /\ abortAt = (IF hf[i].cat = "mcp" THEN "bench" ELSE "cli_bench")
            /\ report = None
            /\ {f.name : f \in resFiles} = ArtifactsOf(SubSeq(hf, 1, i - 1))
            /\ \A f \in resFiles : f.by = "run"

\* C23 witness: in a run of both categories hyperfine failed for a
\* direct-invocation operation after the protocol-level ones were measured.
C23_Witness ==
    /\ Aborted /\ mode = "all" /\ Len(hf) >= 2
    /\ hf[1].cat = "mcp" /\ hf[1].ok
    /\ Last(hf).cat = "cli" /\ ~Last(hf).ok
    /\ mcp_file(hf[1].op, ".json") \in {f.name : f \in resFiles}

\* C24: a run that aborted in the smoke test of the primary, of the Swift
\* server or of the Swift command line, has exited with non-zero status and an
\* error message, with the results directory as the run found it and no
\* measurement made; in mode all the smoke test of the command line comes
\* after those of the servers and still before the reset.
C24_PrimarySmokeFailureAbortsEarly ==
    (Aborted /\ abortAt \in {"smoke_Swift", "cli_smoke_Swift"}) =>
        /\ exit = "nonzero" /\ errs > 0
        /\ mode \in (IF abortAt = "smoke_Swift" THEN {"mcp", "all"} ELSE {"cli", "all"})
        /\ "Built" \in Range(phases)
        /\ "SmokeTested" \notin Range(phases) /\ "Measuring" \notin Range(phases)
        /\ <<resExists, resFiles>> = start.res
        /\ hf = <<>> /\ report = None

\* C24 witness: in a run of both categories the binary was built, the servers
\* passed their smoke tests, the smoke test of the Swift command line failed,
\* and the results of the earlier run are still there.
C24_Witness ==
    /\ Aborted /\ abortAt = "cli_smoke_Swift" /\ mode = "all" /\ curBin
    /\ resExists /\ resFiles = EarlierFiles

\* C25: in mode all each category has its own selection. A filter that names
\* no protocol-level operation aborts the run with nothing measured in either
\* category and the reset results directory empty. A filter that names a
\* protocol-level operation and no direct-invocation operation never reaches
\* the summary: once the protocol-level operations are through, the run has
\* aborted with non-zero status, every selected protocol-level operation
\* measured, their artifacts and nothing else in the reset results directory,
\* no direct-invocation operation measured and no summary generated.
C25_EachCategoryFiltersAlone ==
    mode = "all" =>
        /\ McpEmpty =>
              /\ hf = <<>> /\ pc # "done" /\ report = None
              /\ pc \notin {"bench", "cli_filter", "cli_bench", "summary"}
              /\ (Aborted /\ "Measuring" \in Range(phases)) =>
                    /\ abortAt = "mcp_filter" /\ exit = "nonzero" /\ errs > 0
                    /\ resExists /\ resFiles = {}
        /\ (CliEmpty /\ ~McpEmpty) =>
              /\ pc \notin {"cli_bench", "summary", "done"} /\ report = None
              /\ MeasuredOps("cli") = {}
              /\ (Aborted /\ abortAt = "cli_filter") =>
                    /\ exit = "nonzero" /\ errs > 0
                    /\ MeasuredOps("mcp") = {Selected(TOOLS)[i].name : i \in DOMAIN Selected(TOOLS)}
                    /\ resExists /\ resFiles # {}
                    /\ {f.name : f \in resFiles} = ArtifactsOf(hf)
                    /\ \A f \in resFiles : f.by = "run"
        /\ (Aborted /\ abortAt = "mcp_filter") => McpEmpty
        /\ (Aborted /\ abortAt = "cli_filter") => CliEmpty /\ ~McpEmpty

\* C25 witness: a run of both categories filtered to view, which only the
\* protocol-level operations have, aborted at the second selection with the
\* artifacts of view in the results directory that held earlier results.
C25_Witness ==
    /\ mode = "all" /\ tools = <<"view">> /\ Aborted /\ abortAt = "cli_filter"
    /\ start.res[1] /\ start.res[2] # {}
    /\ mcp_file("view", ".json") \in {f.name : f \in resFiles}
    /\ report = None

\* the run has aborted in the fresh creation that followed a failed rebind
StagingUndone ==
    /\ Aborted /\ abortAt \in {"fresh_forget", "fresh_add"}
    /\ \E i \in DOMAIN vcs : vcs[i] = <<"rebase", "fail">>

====
